---- MODULE Spec2Model ----
(***************************************************************************)
(* Model of Guia_Practica1_Gilson_Tenemea.py: a Streamlit script that      *)
(* fetches procurement records page by page (load_data, cached for 3600 s),*)
(* filters and cleans them and renders metrics, charts and CSV exports.    *)
(*                                                                         *)
(* Text values are sequences of one-character strings; Python's None is    *)
(* the value None below.  A script run is split at its I/O points: each    *)
(* HTTP request and each response.json() is one step whose outcome the     *)
(* server chooses.                                                         *)
(*                                                                         *)
(* Of the fifteen columns of a row the model keeps the four the cleaning   *)
(* reads (ID, Tipo de Contratacion, Provincia / Buyer, Monto).  Filter     *)
(* texts are letters only, so str.contains reads them literally.  Spec is  *)
(* the Streamlit session (the script always calls load_data with the       *)
(* default max_pages); SpecLoad is one call of load_data with max_pages    *)
(* drawn from 0..MaxPagesArg.                                              *)
(***************************************************************************)
EXTENDS Integers, Sequences, FiniteSets, TLC

\* ------------------------------------------------------------------ bounds
\* largest max_pages argument tried when load_data is called on its own
MaxPagesArg == 3
\* largest number of items in one response's "data" list
MaxData == 2
\* largest number of items the server hands out during one session
MaxRows == 2

\* ------------------------------------------------------ program constants
\* default of the max_pages parameter
DefaultMaxPages == 10
\* range(3): attempts per page
Attempts == 3
\* "hasta 3 reintentos": the retries the comment on the loop announces
Retries == 3
\* @st.cache_data(ttl=3600)
CacheTTL == 3600
\* len(search_keyword) < 3
MinKeywordLen == 3
\* seconds that pass in one step of the clock while the app waits
TimeStep == CacheTTL \div 2
\* HTTP status answered by a rate-limiting server
TooManyRequests == 429
\* time.sleep(5) and time.sleep(1.5), in tenths of a second
RetrySleep == 50
PageSleep == 15

\* -------------------------------------------------------------- text model
None == <<"None">>

Lowers == <<"a", "b", "g", "o", "u">>
Uppers == <<"A", "B", "G", "O", "U">>
Digits == <<"0", "1", "2", "3", "4", "5", "6", "7", "8", "9">>

IndexIn(c, table) == IF \E i \in 1..Len(table) : table[i] = c
                     THEN CHOOSE i \in 1..Len(table) : table[i] = c
                     ELSE 0

IsLetter(c) == IndexIn(c, Lowers) > 0 \/ IndexIn(c, Uppers) > 0

\* str.upper() / str.lower() on one character
UpperChar(c) == IF IndexIn(c, Lowers) > 0 THEN Uppers[IndexIn(c, Lowers)] ELSE c
LowerChar(c) == IF IndexIn(c, Uppers) > 0 THEN Lowers[IndexIn(c, Uppers)] ELSE c

\* str.upper(), str.lower(): every character converted
Upper(s) == [i \in 1..Len(s) |-> UpperChar(s[i])]
Lower(s) == [i \in 1..Len(s) |-> LowerChar(s[i])]

\* str.title(): a letter that starts a word is upper-cased, any other letter
\* is lower-cased
Title(s) == [i \in 1..Len(s) |->
               IF i = 1 \/ ~IsLetter(s[i - 1]) THEN UpperChar(s[i])
                                                ELSE LowerChar(s[i])]

\* Series.str.upper() / Series.str.title(): a null stays null
StrUpper(v) == IF v = None THEN None ELSE Upper(v)
StrTitle(v) == IF v = None THEN None ELSE Title(v)

\* re.search of a pattern made of literal characters: sub occurs in s
Contains(s, sub) == \E i \in 1..(Len(s) - Len(sub) + 1) :
                       SubSeq(s, i, i + Len(sub) - 1) = sub

\* Series.str.contains(pat, na=False) / (pat, case=False, na=False) on one cell
StrContains(v, pat) == IF v = None THEN FALSE ELSE Contains(v, pat)
StrContainsNoCase(v, pat) == IF v = None THEN FALSE
                             ELSE Contains(Lower(v), Lower(pat))

\* str.strip() leaves something: the text has a non-blank character
StripNonEmpty(s) == \E i \in 1..Len(s) : s[i] # " "

\* ------------------------------------------------------- the server's data
\* the items a response's "data" list is made of: two share an id, one has
\* no internal_type, one has an amount that is not a number
ItemUniverse ==
  { [id |-> 1, internal_type |-> <<"o", "b">>, buyer |-> <<"a", "b">>,
     amount |-> <<"1", "0">>],
    [id |-> 1, internal_type |-> <<"B", "o">>, buyer |-> None,
     amount |-> <<"2", "5">>],
    [id |-> 2, internal_type |-> None, buyer |-> <<"b", "a">>,
     amount |-> <<"7">>],
    [id |-> 3, internal_type |-> <<"o", "b">>, buyer |-> <<"b", "a">>,
     amount |-> <<"a">>] }

\* "data" lists of at most n items
DataLists(n) == UNION { [1..k -> ItemUniverse] : k \in 0..n }

\* a response body: not JSON at all, or an object with a "data" list and,
\* when has_pages, a "pages" total
NotJson == [json |-> FALSE, data |-> <<>>, has_pages |-> FALSE, pages |-> 0]

\* the "pages" field of a response to a request for page p: missing, or a
\* total below p, p itself or above p (only its order against p is read)
PagesFields(p) == {[has_pages |-> FALSE, pages |-> 0]} \cup
                  { [has_pages |-> TRUE, pages |-> t] : t \in {p - 1, p, p + 1} }

\* the bodies a request for page p can be answered with when the server has
\* room items left to hand out
Bodies(p, room) ==
  {NotJson} \cup
  { [json |-> TRUE, data |-> d, has_pages |-> f.has_pages, pages |-> f.pages] :
      d \in DataLists(IF room < MaxData THEN room ELSE MaxData),
      f \in PagesFields(p) }

\* data_json.get("pages", 1)
PagesOf(body) == IF body.has_pages THEN body.pages ELSE 1

StatusCodes == {200, 429, 500}

\* response.raise_for_status(): 4xx and 5xx raise HTTPError
RaisesForStatus(status) == 400 <= status /\ status < 600

\* ------------------------------------------------------------------- state
VARIABLES
  widgets,    \* year_selected, search_keyword, buyer_filter, type_filter and
              \* apply_filters of the current script run
  pc,         \* where the script run is
  args,       \* load_data's arguments: year, search, buyer, max_pages
  page,       \* load_data's page
  intento,    \* load_data's for-loop variable
  all_data,   \* load_data's list of rows
  response,   \* status code of load_data's response; 0 before the first one
  df,         \* the script's df (the value load_data returned, then cleaned)
  cache,      \* st.cache_data's store: argument tuple -> [df, age]
  screen,     \* what the current run has rendered
  summary,    \* the figures of the cleaning summary
  served,     \* number of items the server has handed out so far
  stages,     \* the stages the current script run has completed, in order
  csv_data,   \* the text behind the "Datos Procesados" download button
  obs         \* history of the current call, for stating properties

vars == <<widgets, pc, args, page, intento, all_data, response, df, cache,
          screen, summary, served, stages, csv_data, obs>>

\* ---------------------------------------------------------------- load_data
\* one row per item: the columns the script later reads
RowOf(item) == [ID |-> item.id,
                Tipo_Contratacion |-> item.internal_type,
                Provincia |-> item.buyer,
                Monto |-> item.amount]

Rows(data) == [i \in 1..Len(data) |-> RowOf(data[i])]

\* pd.DataFrame(all_data) with the two text columns normalised
BuildFrame(rows) ==
  [i \in 1..Len(rows) |->
     [rows[i] EXCEPT !.Tipo_Contratacion = StrTitle(@),
                     !.Provincia = StrUpper(@)]]

\* variant: the rows collected so far are returned after an error
ErrorFrame_partial == BuildFrame(all_data)

\* return pd.DataFrame() of the two except branches
ErrorFrame == <<>>

\* while page <= max_pages
WithinMaxPages(p) == p <= args.max_pages

\* variant: one pass more
RetriesLeft_extra(i) == i + 1 <= Attempts

\* for intento in range(3): another pass follows pass i
RetriesLeft(i) == i + 1 < Attempts

\* variant: the last page is passed by one
LastPage_strict(body) == page > PagesOf(body)

\* if page >= data_json.get("pages", 1): break
LastPage(body) == page >= PagesOf(body)

NoBody == [page |-> 0, nonempty |-> FALSE, has_pages |-> FALSE, pages |-> 0]

NoCall == [nreq |-> 0, reqPage |-> 0, pageReqs |-> 0, lastAccepted |-> 0,
           acceptedItems |-> <<>>, rows429 |-> 0, failed |-> FALSE,
           gaveUp |-> FALSE, reqAfterGiveUp |-> FALSE, hit |-> FALSE,
           body |-> NoBody, sleeps |-> <<>>, returned |-> FALSE]

\* what is left of the history when the call is over: its totals and the
\* last page requested
Totals(o) == [o EXCEPT !.pageReqs = 0, !.lastAccepted = 0,
                       !.body = NoBody, !.returned = TRUE]

\* the cache key of a call
KeyOf(a) == <<a.year, a.search, a.buyer, a.max_pages>>

\* an entry is served while it is younger than the ttl
CacheHit(key) == key \in DOMAIN cache /\ cache[key].age < CacheTTL

\* variant: an empty result is not kept
Store_nonEmpty(key, result) ==
  IF result = <<>> THEN cache
  ELSE [k \in (DOMAIN cache) \cup {key} |->
          IF k = key THEN [df |-> result, age |-> 0] ELSE cache[k]]

\* the decorator keeps every value the function returns
Store(key, result) ==
  [k \in (DOMAIN cache) \cup {key} |->
     IF k = key THEN [df |-> result, age |-> 0] ELSE cache[k]]

\* load_data returns result: the decorator stores it, the caller gets it,
\* the locals are gone
Return(result) ==
  /\ df' = result
  /\ cache' = Store(KeyOf(args), result)
  /\ pc' = "returned"
  /\ stages' = Append(stages, "fetch")
  /\ page' = 0
  /\ intento' = 0
  /\ all_data' = <<>>
  /\ response' = 0

\* the call of load_data: served from the cache, or the body starts
load_data ==
  /\ pc = "call"
  /\ IF CacheHit(KeyOf(args))
     THEN /\ df' = cache[KeyOf(args)].df
          /\ pc' = "returned"
          /\ stages' = Append(stages, "fetch")
          /\ obs' = Totals([NoCall EXCEPT !.hit = TRUE])
          /\ UNCHANGED <<page, intento, all_data, response, cache>>
     ELSE IF WithinMaxPages(1)
     THEN /\ page' = 1
          /\ all_data' = <<>>
          /\ intento' = 0
          /\ response' = 0
          /\ pc' = "request"
          /\ obs' = NoCall
          /\ UNCHANGED <<df, cache, stages>>
     ELSE /\ Return(BuildFrame(<<>>))
          /\ obs' = Totals(NoCall)
  /\ UNCHANGED <<widgets, args, screen, summary, served, csv_data>>

\* one pass of the retry loop: requests.get and the status check
Request(connected, status) ==
  /\ pc = "request"
  /\ LET seen == [obs EXCEPT
                    !.nreq = @ + 1,
                    !.reqPage = page,
                    !.pageReqs = IF obs.reqPage = page THEN @ + 1 ELSE 1,
                    !.reqAfterGiveUp = obs.gaveUp,
                    !.sleeps = <<>>]
     IN
     IF ~connected
     THEN \* except Exception: return pd.DataFrame()
          /\ Return(ErrorFrame)
          /\ obs' = Totals([seen EXCEPT !.failed = TRUE])
     ELSE IF status = TooManyRequests
     THEN \* sleep 5 s and continue; after the last pass the loop just ends
          /\ response' = status
          /\ IF RetriesLeft(intento)
             THEN /\ intento' = intento + 1
                  /\ pc' = "request"
                  /\ obs' = [seen EXCEPT !.sleeps = <<RetrySleep>>]
             ELSE /\ pc' = "parse"
                  /\ obs' = [seen EXCEPT !.sleeps = <<RetrySleep>>,
                                          !.gaveUp = TRUE]
                  /\ UNCHANGED intento
          /\ UNCHANGED <<page, all_data, df, cache, stages>>
     ELSE IF RaisesForStatus(status)
     THEN \* except HTTPError: return pd.DataFrame()
          /\ Return(ErrorFrame)
          /\ obs' = Totals([seen EXCEPT !.failed = TRUE])
     ELSE \* break
          /\ response' = status
          /\ pc' = "parse"
          /\ obs' = [seen EXCEPT !.lastAccepted = page]
          /\ UNCHANGED <<page, intento, all_data, df, cache, stages>>
  /\ UNCHANGED <<widgets, args, screen, summary, served, csv_data>>

\* response.json() and the rest of the while body
ParseJson(body) ==
  /\ pc = "parse"
  /\ served + Len(body.data) <= MaxRows
  /\ served' = served + Len(body.data)
  /\ LET from429 == response = TooManyRequests
         rows == all_data \o Rows(body.data)
         read == [obs EXCEPT
                    !.body = [page |-> page, nonempty |-> body.data # <<>>,
                              has_pages |-> body.has_pages,
                              pages |-> body.pages],
                    !.rows429 = IF from429 THEN @ + Len(body.data) ELSE @,
                    !.acceptedItems = IF from429 THEN @ ELSE @ \o body.data]
     IN
     IF ~body.json
     THEN \* response.json() raises; nothing catches it
          /\ pc' = "raised"
          /\ obs' = obs
          /\ UNCHANGED <<page, intento, all_data, response, df, cache,
                         stages>>
     ELSE IF body.data = <<>>
     THEN \* if not data_page: break
          /\ Return(BuildFrame(all_data))
          /\ obs' = Totals(read)
     ELSE IF LastPage(body)
     THEN /\ Return(BuildFrame(rows))
          /\ obs' = Totals(read)
     ELSE IF WithinMaxPages(page + 1)
     THEN \* page += 1, sleep 1.5 s, next pass of the while loop
          /\ page' = page + 1
          /\ all_data' = rows
          /\ intento' = 0
          /\ pc' = "request"
          /\ obs' = [read EXCEPT !.sleeps = @ \o <<PageSleep>>]
          /\ UNCHANGED <<response, df, cache, stages>>
     ELSE \* page += 1, sleep 1.5 s, the while loop ends
          /\ Return(BuildFrame(rows))
          /\ obs' = Totals([read EXCEPT !.sleeps = @ \o <<PageSleep>>])
  /\ UNCHANGED <<widgets, args, screen, summary, csv_data>>

\* ------------------------------------------- load_data called on its own
Years == {<<"year", 2024>>}
Searches == {<<"a", "g", "u">>}
Buyers == {None}

NoWidgets == [year_selected |-> <<"Todos">>, search_keyword |-> <<>>,
              buyer_filter |-> <<>>, type_filter |-> <<>>,
              apply_filters |-> FALSE]
NoSummary == [initial_count |-> 0, final_count |-> 0, len_df |-> 0]
\* no download button has been offered
NoCsv == [header |-> <<>>, lines |-> <<>>]

InitLoad ==
  /\ widgets = NoWidgets
  /\ pc = "call"
  /\ args \in [year : Years, search : Searches, buyer : Buyers,
                max_pages : 0..MaxPagesArg]
  /\ page = 0
  /\ intento = 0
  /\ all_data = <<>>
  /\ response = 0
  /\ df = <<>>
  /\ cache = <<>>
  /\ screen = {}
  /\ summary = NoSummary
  /\ served = 0
  /\ stages = <<>>
  /\ csv_data = NoCsv
  /\ obs = NoCall

NextLoad ==
  \/ load_data
  \/ \E connected \in BOOLEAN, status \in StatusCodes :
       Request(connected, status)
  \/ \E body \in Bodies(page, MaxRows - served) : ParseJson(body)

SpecLoad == InitLoad /\ [][NextLoad]_vars

\* each started step of a call completes: a request is answered, a sleep ends
FairSpecLoad == SpecLoad /\ WF_vars(NextLoad)

\* ----------------------------------------------------------- the script
\* the settings of the sidebar the user tries: the defaults, a keyword that
\* is too short, and a year with a buyer and a type filter
Sidebar(y, k, b, t) == [year_selected |-> y, search_keyword |-> k,
                        buyer_filter |-> b, type_filter |-> t]
Sidebars ==
  { Sidebar(<<"Todos">>, <<"a", "g", "u", "a">>, <<>>, <<>>),
    Sidebar(<<"Todos">>, <<"a", "g">>, <<>>, <<>>),
    Sidebar(<<"year", 2024>>, <<"a", "g", "u", "a">>, <<"a", "b">>,
            <<"o", "b">>) }

\* variant: two characters are enough
KeywordTooShort_two(k) == Len(k) < MinKeywordLen - 1

\* len(search_keyword) < 3
KeywordTooShort(k) == Len(k) < MinKeywordLen

\* year_param = None if year_selected == "Todos" else year_selected
YearParam(y) == IF y = <<"Todos">> THEN None ELSE y

\* buyer_filter if buyer_filter else None
BuyerParam(b) == IF b # <<>> THEN b ELSE None

\* pd.to_numeric(errors="coerce") on one cell: digits give their number,
\* anything else gives NaN
NaN == [nan |-> TRUE, v |-> 0]
RECURSIVE DecimalValue(_)
DecimalValue(s) == IF s = <<>> THEN 0
                   ELSE 10 * DecimalValue(SubSeq(s, 1, Len(s) - 1))
                        + (IndexIn(s[Len(s)], Digits) - 1)
ToNumeric(v) ==
  IF v = None \/ v = <<>> \/ \E i \in 1..Len(v) : IndexIn(v[i], Digits) = 0
  THEN NaN
  ELSE [nan |-> FALSE, v |-> DecimalValue(v)]

\* df[mask]: the rows at the indices of mask, in their order
RECURSIVE RowsFrom(_, _, _)
RowsFrom(rows, mask, i) ==
  IF i > Len(rows) THEN <<>>
  ELSE IF i \in mask THEN <<rows[i]>> \o RowsFrom(rows, mask, i + 1)
  ELSE RowsFrom(rows, mask, i + 1)
SelectRows(rows, mask) == RowsFrom(rows, mask, 1)

\* df[df["Provincia / Buyer"].str.contains(buyer_filter.upper(), na=False)]
FilterBuyer(rows, buyer_filter) ==
  SelectRows(rows, { i \in 1..Len(rows) :
                       StrContains(rows[i].Provincia, Upper(buyer_filter)) })

\* df[df["Tipo de Contratacion"].str.contains(type_filter, case=False,
\* na=False)]
FilterType(rows, type_filter) ==
  SelectRows(rows, { i \in 1..Len(rows) :
                       StrContainsNoCase(rows[i].Tipo_Contratacion,
                                         type_filter) })

\* the local filters, each applied when its text is not blank
LocalFilters(rows, buyer_filter, type_filter) ==
  LET byBuyer == IF StripNonEmpty(buyer_filter)
                 THEN FilterBuyer(rows, buyer_filter) ELSE rows
  IN IF StripNonEmpty(type_filter)
     THEN FilterType(byBuyer, type_filter) ELSE byBuyer

\* df["Monto"] = pd.to_numeric(df["Monto"], errors="coerce")
ConvertMonto(rows) ==
  [i \in 1..Len(rows) |-> [rows[i] EXCEPT !.Monto = ToNumeric(@)]]

\* df.dropna(subset=["Monto", "Tipo_Contratacion"])
DropNa(rows) ==
  SelectRows(rows, { i \in 1..Len(rows) :
                       ~rows[i].Monto.nan /\ rows[i].Tipo_Contratacion # None })

\* variant: the last row of each ID is kept
DropDuplicates_last(rows) ==
  SelectRows(rows, { i \in 1..Len(rows) :
                       \A j \in (i + 1)..Len(rows) : rows[j].ID # rows[i].ID })

\* df.drop_duplicates(subset=["ID"], keep="first")
DropDuplicates(rows) ==
  SelectRows(rows, { i \in 1..Len(rows) :
                       \A j \in 1..(i - 1) : rows[j].ID # rows[i].ID })

\* the stages of a script run, in the order of the script's sections: the
\* sidebar, load_data, the cleaning, section 4 (metrics), the charts of
\* sections 5 to 8, the export section
Stages == <<"inputs", "fetch", "clean", "aggregate", "plot", "export">>

\* the dtype pd.to_numeric gives the Monto column: float64 when a cell was
\* coerced to NaN, int64 when every cell is a whole number
MontoIsFloat(rows) == \E i \in 1..Len(rows) : rows[i].Monto.nan

\* a whole number written out, as an int64 and as a float64 cell
RECURSIVE FormatInt(_)
FormatInt(n) == IF n < 10 THEN <<Digits[n + 1]>>
                ELSE FormatInt(n \div 10) \o <<Digits[(n % 10) + 1]>>
FormatFloat(n) == FormatInt(n) \o <<".", "0">>

\* a text cell: a null is written as an empty field
CsvCell(v) == IF v = None THEN <<>> ELSE v

\* variant: to_csv with its default index=True, the row label comes first
ToCsv_index(rows, float) ==
  [header |-> <<"", "ID", "Tipo_Contratacion", "Provincia", "Monto">>,
   lines |-> [i \in 1..Len(rows) |->
                <<FormatInt(i - 1), FormatInt(rows[i].ID),
                  CsvCell(rows[i].Tipo_Contratacion),
                  CsvCell(rows[i].Provincia),
                  IF rows[i].Monto.nan THEN <<>>
                  ELSE IF float THEN FormatFloat(rows[i].Monto.v)
                  ELSE FormatInt(rows[i].Monto.v)>>]]

\* df.to_csv(index=False): the column names, then one line per row
ToCsv(rows, float) ==
  [header |-> <<"ID", "Tipo_Contratacion", "Provincia", "Monto">>,
   lines |-> [i \in 1..Len(rows) |->
                <<FormatInt(rows[i].ID),
                  CsvCell(rows[i].Tipo_Contratacion),
                  CsvCell(rows[i].Provincia),
                  IF rows[i].Monto.nan THEN <<>>
                  ELSE IF float THEN FormatFloat(rows[i].Monto.v)
                  ELSE FormatInt(rows[i].Monto.v)>>]]

\* the figures of the cleaning summary, from the counts the script took
RegistrosIniciales(s) == s.initial_count
RegistrosDespuesDeLimpieza(s) == s.final_count
EliminadosPorNulos(s) == s.initial_count - s.final_count
DuplicadosEliminados(s) == s.initial_count - s.len_df

\* the "Total Contratos" card: len(df)
TotalContratos == Len(df)

\* the sections of the page below the cleaning summary
Analysis == {"metrics", "charts", "kpis", "export"}

\* the first script run of a session: nothing pressed, the welcome screen
Init ==
  /\ widgets = [year_selected |-> <<"Todos">>,
                search_keyword |-> <<"a", "g", "u", "a">>,
                buyer_filter |-> <<>>, type_filter |-> <<>>,
                apply_filters |-> FALSE]
  /\ pc = "idle"
  /\ args = [year |-> None, search |-> <<>>, buyer |-> None,
             max_pages |-> DefaultMaxPages]
  /\ page = 0
  /\ intento = 0
  /\ all_data = <<>>
  /\ response = 0
  /\ df = <<>>
  /\ cache = <<>>
  /\ screen = {"welcome"}
  /\ summary = NoSummary
  /\ served = 0
  /\ stages = <<"inputs">>
  /\ csv_data = NoCsv
  /\ obs = NoCall

\* the user changes a widget or presses the button: the script runs again
\* from the top, down to the call of load_data
Rerun(sidebar, pressed) ==
  /\ pc \in {"idle", "raised"}
  /\ widgets' = [year_selected |-> sidebar.year_selected,
                 search_keyword |-> sidebar.search_keyword,
                 buyer_filter |-> sidebar.buyer_filter,
                 type_filter |-> sidebar.type_filter,
                 apply_filters |-> pressed]
  /\ df' = <<>>
  /\ summary' = NoSummary
  /\ stages' = <<"inputs">>
  /\ csv_data' = NoCsv
  /\ obs' = NoCall
  /\ IF ~pressed
     THEN /\ screen' = {"welcome"}
          /\ pc' = "idle"
          /\ UNCHANGED args
     ELSE IF KeywordTooShort(sidebar.search_keyword)
     THEN /\ screen' = {"keyword_error"}
          /\ pc' = "idle"
          /\ UNCHANGED args
     ELSE /\ screen' = {"spinner"}
          /\ pc' = "call"
          /\ args' = [year |-> YearParam(sidebar.year_selected),
                      search |-> sidebar.search_keyword,
                      buyer |-> BuyerParam(sidebar.buyer_filter),
                      max_pages |-> DefaultMaxPages]
  /\ UNCHANGED <<page, intento, all_data, response, cache, served>>

\* the script from the return of load_data to its end; on a frame that the
\* cleaning left empty the sections after the metrics may or may not fail
Render(completes) ==
  /\ pc = "returned"
  /\ IF df = <<>>
     THEN /\ screen' = {"no_records_warning"}
          /\ pc' = "idle"
          /\ UNCHANGED <<df, summary, stages, csv_data>>
     ELSE LET filtered == LocalFilters(df, widgets.buyer_filter,
                                       widgets.type_filter)
              typed == ConvertMonto(filtered)
              notnull == DropNa(typed)
              clean == DropDuplicates(notnull)
          IN /\ df' = clean
             /\ summary' = [initial_count |-> Len(typed),
                            final_count |-> Len(notnull),
                            len_df |-> Len(clean)]
             /\ IF completes \/ clean # <<>>
                THEN /\ screen' = {"cleaning", "summary"} \cup Analysis
                     /\ stages' = stages \o <<"clean", "aggregate", "plot",
                                              "export">>
                     /\ csv_data' = ToCsv(clean, MontoIsFloat(typed))
                     /\ pc' = "idle"
                ELSE /\ screen' = {"cleaning", "summary", "metrics"}
                     /\ stages' = stages \o <<"clean", "aggregate">>
                     /\ csv_data' = NoCsv
                     /\ pc' = "raised"
  /\ obs' = NoCall
  /\ UNCHANGED <<widgets, args, page, intento, all_data, response, cache,
                 served>>

\* time passes while the app waits for the user; entries that reach the ttl
\* are gone
PassTime ==
  /\ pc \in {"idle", "raised"}
  /\ cache # <<>>
  /\ cache' = LET live == { k \in DOMAIN cache :
                              cache[k].age + TimeStep < CacheTTL }
              IN [k \in live |-> [cache[k] EXCEPT !.age = @ + TimeStep]]
  /\ UNCHANGED <<widgets, pc, args, page, intento, all_data, response, df,
                 screen, summary, served, stages, csv_data, obs>>

Next ==
  \/ \E sidebar \in Sidebars, pressed \in BOOLEAN : Rerun(sidebar, pressed)
  \/ load_data
  \/ \E connected \in BOOLEAN, status \in StatusCodes :
       Request(connected, status)
  \/ \E body \in Bodies(page, MaxRows - served) : ParseJson(body)
  \/ \E completes \in BOOLEAN : Render(completes)
  \/ PassTime

Spec == Init /\ [][Next]_vars

\* ------------------------------------------------------------------ claims
\* C1: an uncached call requests at most max_pages distinct pages, the page
\* numbers go 1, 2, 3, ... without a gap, and page p+1 is requested only
\* after a response for page p was accepted (passed the status check).
C1_PagesInOrderAfterAccepted ==
  /\ [](obs.reqPage <= args.max_pages)
  /\ []((obs.reqPage > 1 /\ ~obs.returned)
          => obs.lastAccepted >= obs.reqPage - 1)
  /\ [][obs'.nreq > obs.nreq =>
          obs'.reqPage \in {obs.reqPage, obs.reqPage + 1}]_vars

\* C2: a page that always answers 429 gets the first request plus 3 retries.
C2_FirstRequestPlusThreeRetries ==
  /\ obs.pageReqs <= 1 + Retries
  /\ (pc = "parse" /\ response = TooManyRequests
        => obs.pageReqs = 1 + Retries)

\* C3: when every attempt for a page is answered 429, no further request is
\* issued and no row of a 429 response's body enters the dataset.
C3_GivesUpAfter429 ==
  obs.gaveUp => (~obs.reqAfterGiveUp /\ obs.rows429 = 0)

\* C4: page p+1 is requested only if the response read for page p had a
\* non-empty "data" list and a "pages" field greater than p.
C4_NextPageOnlyIfMore ==
  (obs.body.page > 0 /\ obs.reqPage = obs.body.page + 1)
    => (obs.body.nonempty /\ obs.body.has_pages
        /\ obs.body.pages > obs.body.page)

C4_Witness ==
  obs.body.page > 0 /\ obs.reqPage = obs.body.page + 1

\* C5: without a non-429 error the returned dataset has exactly the rows of
\* the items of the accepted responses, in order.
C5_RowsAreAcceptedItems ==
  (obs.returned /\ ~obs.hit /\ ~obs.failed)
    => df = BuildFrame(Rows(obs.acceptedItems))

\* C6: after a non-429 HTTP error or a connection error no further request is
\* issued and the returned dataset is empty.
C6_ErrorReturnsEmpty ==
  /\ [](obs.failed => (obs.returned /\ pc = "returned" /\ df = <<>>))
  /\ [][obs.failed => obs'.nreq <= obs.nreq]_vars

C6_Witness ==
  obs.failed /\ obs.acceptedItems # <<>>

\* C7: no HTTP request is issued unless the button was pressed in this run
\* and the keyword has at least 3 characters; with the button pressed and a
\* shorter keyword only the keyword error is shown.
C7_FetchOnlyWhenPressedAndKeyword ==
  /\ (pc \in {"call", "request", "parse"} \/ obs.nreq > 0)
       => (widgets.apply_filters /\ Len(widgets.search_keyword) >= 3)
  /\ (pc = "idle" /\ widgets.apply_filters
        /\ Len(widgets.search_keyword) < 3)
       => screen = {"keyword_error"}

C7_Witness ==
  /\ screen = {"keyword_error"}
  /\ \E k \in DOMAIN cache : cache[k].df # <<>>

\* C8: the analysis sections are rendered only over a data set with at least
\* one record; when nothing is left after the filters the warning is shown.
C8_AnalysisOnlyOverRecords ==
  /\ (screen \cap Analysis # {}) => df # <<>>
  /\ (pc = "idle" /\ widgets.apply_filters
        /\ Len(widgets.search_keyword) >= 3 /\ df = <<>>)
       => screen = {"no_records_warning"}

\* C9: every result load_data returns is in the cache under its argument
\* tuple, and a call whose tuple has an entry younger than 3600 s issues no
\* request and returns that entry.
C9_CachedPerArguments ==
  /\ [](pc = "returned"
          => /\ KeyOf(args) \in DOMAIN cache
             /\ cache[KeyOf(args)].df = df
             /\ obs.hit => obs.nreq = 0)
  /\ [][(pc = "call" /\ KeyOf(args) \in DOMAIN cache
            /\ cache[KeyOf(args)].age < 3600)
          => (pc' = "returned" /\ obs'.nreq = 0
              /\ df' = cache[KeyOf(args)].df /\ cache' = cache)]_vars

C9_Witness ==
  /\ pc = "returned"
  /\ obs.hit
  /\ df = <<>>
  /\ Cardinality(DOMAIN cache) = 2

\* C10: a call ends, after at most 3 x max_pages requests.
C10_TerminatesWithinBound ==
  /\ [](obs.nreq <= Attempts * args.max_pages)
  /\ <>(pc \in {"returned", "raised"})

C10_Witness ==
  pc = "returned" /\ args.max_pages > 1 /\ obs.nreq = Attempts * args.max_pages

\* C11: between two consecutive requests of a call there is exactly one
\* sleep, of 5 s after a request answered 429 and of 1.5 s after an accepted
\* page, and no sleep happens that is not followed by another request.
C11_OneFixedSleepBetweenRequests ==
  /\ (pc = "request" /\ obs.nreq > 0)
       => obs.sleeps = IF response = TooManyRequests THEN <<RetrySleep>>
                                                     ELSE <<PageSleep>>
  /\ (obs.returned \/ pc = "raised") => obs.sleeps = <<>>

C13_SummaryFiguresConsistent ==
  "summary" \in screen
    => /\ DuplicadosEliminados(summary)
            = summary.final_count - summary.len_df
       /\ EliminadosPorNulos(summary)
            = summary.initial_count - summary.final_count
       /\ RegistrosDespuesDeLimpieza(summary) = TotalContratos
       /\ RegistrosIniciales(summary)
            = RegistrosDespuesDeLimpieza(summary)
              + EliminadosPorNulos(summary) + DuplicadosEliminados(summary)

\* C14: the stages of a run are completed in the order inputs, fetch, clean,
\* aggregate, plot, export, none without the earlier ones; the download
\* buttons are offered only after load_data returned records and the
\* cleaning was done, and the "Datos Procesados" CSV has one line per row of
\* the cleaned dataset, with that row's values.
C14_StagesInOrderExportCleaned ==
  /\ [](\E n \in 0..Len(Stages) : stages = SubSeq(Stages, 1, n))
  /\ []("export" \in screen <=> csv_data # NoCsv)
  /\ []("export" \in screen
          => /\ stages = Stages
             /\ csv_data.header
                  = <<"ID", "Tipo_Contratacion", "Provincia", "Monto">>
             /\ Len(csv_data.lines) = Len(df)
             /\ \A i \in 1..Len(df) :
                  LET l == csv_data.lines[i]
                  IN /\ Len(l) = 4
                     /\ l[1] = FormatInt(df[i].ID)
                     /\ l[2] = df[i].Tipo_Contratacion
                     /\ l[3] = CsvCell(df[i].Provincia)
                     /\ l[4] \in {FormatInt(df[i].Monto.v),
                                  FormatFloat(df[i].Monto.v)})
  /\ [][("export" \in screen' /\ "export" \notin screen)
          => (pc = "returned" /\ df # <<>>
              /\ stages = <<"inputs", "fetch">>)]_vars

C14_Witness ==
  /\ "export" \in screen
  /\ KeyOf(args) \in DOMAIN cache
  /\ Len(cache[KeyOf(args)].df) > Len(df)
  /\ df # <<>>

====
